---- MODULE Spec2Model ----
(***************************************************************************)
(* Model of src/class.py: the MLTrader strategy.  One strategy object is   *)
(* initialised once by the framework and then driven through               *)
(* on_trading_iteration, one call per scheduling tick.                     *)
(*                                                                         *)
(* Representation of numbers.  The program computes in floats; the model   *)
(* computes in exact integers and fractions:                               *)
(*   - cash and last_price are integers;                                   *)
(*   - cash_at_risk is a fraction [num, den];                              *)
(*   - a probability p is the integer p * 10000 (0.999 is 9990);           *)
(*   - a bracket leg price x is the integer x * 100 (last_price * 1.20 is  *)
(*     last_price * 120).                                                  *)
(* Collaborators (broker, news source, scoring model) are the environment: *)
(* each iteration draws their responses, and at most one of them raises.   *)
(***************************************************************************)
EXTENDS Integers, Sequences, FiniteSets

\* ---------------------------------------------------------------- bounds
MaxCash == 3
MaxPrice == 2
MaxDen == 3

\* ------------------------------------------------------ program constants
Threshold == 9990
BuyTakeProfit == 120
BuyStopLoss == 95
SellTakeProfit == 80
SellStopLoss == 105
DefaultProbability == 5000

\* --------------------------------------------------- environment's inputs
\* what get_cash and get_last_price answer: a small grid, a price of 0 (the
\* division fails whatever the cash), and the pair of the specification's
\* worked example
Lookups ==
    [cash : -1 .. MaxCash, last_price : 1 .. MaxPrice]
    \cup [cash : {0, 1}, last_price : {0}]
    \cup {[cash |-> 10000, last_price |-> 100]}
Probabilities == {9990, 9995}
Labels == {"positive", "negative", "neutral"}
SentimentFaults == {"get_datetime", "get_news", "headline", "estimate_sentiment"}
TradeFaults == {"sell_all", "create_order", "submit_order"}

\* The responses of the collaborators in one iteration.  A response that the
\* iteration cannot observe, because an earlier call raised, is left at a
\* fixed value: the cash behind a failed cash lookup, the price behind a
\* failed price lookup, the score behind a failed news fetch or scoring.
Env(l, p, lab, f) ==
    [cash |-> l.cash, last_price |-> l.last_price, probability |-> p,
     label |-> lab, fault |-> f]

Envs ==
    {Env([cash |-> 0, last_price |-> 0], 0, "neutral", "get_cash")}
    \cup
    {Env([cash |-> l.cash, last_price |-> 0], 0, "neutral", "get_last_price") :
        l \in Lookups}
    \cup
    {Env(l, 0, "neutral", f) : l \in Lookups, f \in SentimentFaults}
    \cup
    UNION {{Env(l, p, lab, f) : l \in Lookups, f \in {"none"} \cup TradeFaults} :
              p \in Probabilities, lab \in Labels}

\* before the first iteration
NoResponses ==
    [cash |-> 0, last_price |-> 0, probability |-> 0, label |-> "neutral"]

SymbolArgs == {"spy", "QQQ"}
\* cash_at_risk arguments as fractions: 1/d inside (0, 1], the others outside
CashAtRiskArgs ==
    UNION {{[num |-> n, den |-> d] : n \in {-1, 0, 1, d + 1}} : d \in 1 .. MaxDen}

\* the environment variables the module reads when it is loaded
Credentials == {"API_KEY", "API_SECRET", "BASE_URL"}

\* before initialize is called
NoArgs == [symbol |-> "", cash_at_risk |-> [num |-> 0, den |-> 1]]

VARIABLES
    process,          \* the script: "importing", "main", "backtest", "exited"
                      \* (ran to its end), "crashed" (an error left it)
    logged,           \* severity of the record logged for a startup failure:
                      \* "none", "error", "critical"
    args,             \* the arguments initialize was called with
    phase,            \* "new", "running", or "failed" (initialize raised)
    error,            \* the startup failure: "none", "credentials" (module),
                      \* "Alpaca", "backtest" (main block), "ValueError",
                      \* "REST" (initialize)
    attrs,            \* the attributes initialize has set on the strategy
    symbol,           \* self.symbol
    cash_at_risk,     \* self.cash_at_risk, a fraction
    last_trade,       \* self.last_trade: "none", "buy", "sell"
    cash,             \* the latest iteration: result of position_sizing
    last_price,
    quantity,
    probability,      \* the latest iteration: result of get_sentiment
    sentiment,
    calls,            \* the latest iteration: collaborator calls, in order
    orders,           \* the latest iteration: orders handed to submit_order
    raised,           \* the latest iteration: the collaborator that raised
    caught,           \* the latest iteration: the handler that logged it
    escaped,          \* the latest iteration: an error left the iteration
    prev_last_trade,  \* last_trade when the latest iteration started
    responses,        \* the latest iteration: what the collaborators had to
                      \* answer (cash, price, score), asked or not
    prev_order_failed,\* the iteration before the latest one ended with
                      \* create_order or submit_order raising
    last_submitted    \* side of the latest order submit_order accepted

vars == <<process, logged, args, phase, error, attrs, symbol, cash_at_risk, last_trade, cash,
          last_price, quantity, probability, sentiment, calls, orders,
          raised, caught, escaped, prev_last_trade, responses,
          prev_order_failed, last_submitted>>

iter_vars == <<cash, last_price, quantity, probability, sentiment, calls,
               orders, raised, caught, escaped, prev_last_trade, responses,
               prev_order_failed, last_submitted>>

\* ------------------------------------------------------------- helpers
\* str.upper() on the symbols the model passes to initialize
upper(s) == CASE s = "spy" -> "SPY"
              [] s = "qqq" -> "QQQ"
              [] OTHER -> s

\* variant: the quotient is truncated downwards instead of rounded
round0_floor(num, den) ==
    IF den < 0 THEN (-num) \div (-den) ELSE num \div den

\* variant: the quotient is rounded upwards
round0_ceil(num, den) ==
    IF den < 0 THEN -((num) \div (-den)) ELSE -((-num) \div den)

\* round(num / den, 0) for den # 0: nearest integer, a tie goes to the even one
round0(num, den) ==
    LET n == IF den < 0 THEN -num ELSE num
        d == IF den < 0 THEN -den ELSE den
        q == n \div d
        r == n - q * d
    IN  IF 2 * r < d THEN q
        ELSE IF 2 * r > d THEN q + 1
        ELSE IF q % 2 = 0 THEN q ELSE q + 1

\* variant: the lower end of the range is accepted too
valid_cash_at_risk_closed(car) == 0 <= car.num /\ car.num <= car.den

\* the guard of initialize: 0 < cash_at_risk <= 1
valid_cash_at_risk(car) == 0 < car.num /\ car.num <= car.den

\* ---------------------------------------------------------- position_sizing
position_sizing(car, env) ==
    IF env.fault = "get_cash"
    THEN [cash |-> 0, last_price |-> 0, quantity |-> 0,
          calls |-> <<"get_cash">>, raised |-> "get_cash",
          caught |-> "position_sizing",
          escaped |-> FALSE]
    ELSE IF env.fault = "get_last_price"
    THEN [cash |-> 0, last_price |-> 0, quantity |-> 0,
          calls |-> <<"get_cash", "get_last_price">>,
          raised |-> "get_last_price", caught |-> "position_sizing",
          escaped |-> FALSE]
    ELSE IF env.last_price = 0
    THEN [cash |-> 0, last_price |-> 0, quantity |-> 0,
          calls |-> <<"get_cash", "get_last_price">>,
          raised |-> "ZeroDivisionError", caught |-> "position_sizing",
          escaped |-> FALSE]
    ELSE [cash |-> env.cash, last_price |-> env.last_price,
          quantity |-> round0(env.cash * car.num, car.den * env.last_price),
          calls |-> <<"get_cash", "get_last_price">>,
          raised |-> "none", caught |-> "none", escaped |-> FALSE]

\* ------------------------------------------------------------ get_sentiment
\* variant: the scoring call sits outside the try block, its error escapes
get_sentiment_unguarded(env) ==
    IF env.fault = "get_datetime"
    THEN [probability |-> DefaultProbability, sentiment |-> "neutral",
          calls |-> <<"get_datetime">>, raised |-> "get_datetime",
          caught |-> "get_sentiment", escaped |-> FALSE]
    ELSE IF env.fault \in {"get_news", "headline"}
    THEN [probability |-> DefaultProbability, sentiment |-> "neutral",
          calls |-> <<"get_datetime", "get_news">>, raised |-> env.fault,
          caught |-> "get_sentiment", escaped |-> FALSE]
    ELSE IF env.fault = "estimate_sentiment"
    THEN [probability |-> 0, sentiment |-> "uncalled",
          calls |-> <<"get_datetime", "get_news", "estimate_sentiment">>,
          raised |-> "estimate_sentiment", caught |-> "none",
          escaped |-> TRUE]
    ELSE [probability |-> env.probability, sentiment |-> env.label,
          calls |-> <<"get_datetime", "get_news", "estimate_sentiment">>,
          raised |-> "none", caught |-> "none", escaped |-> FALSE]

get_sentiment(env) ==
    IF env.fault = "get_datetime"
    THEN [probability |-> DefaultProbability, sentiment |-> "neutral",
          calls |-> <<"get_datetime">>, raised |-> "get_datetime",
          caught |-> "get_sentiment", escaped |-> FALSE]
    ELSE IF env.fault \in {"get_news", "headline"}
    THEN [probability |-> DefaultProbability, sentiment |-> "neutral",
          calls |-> <<"get_datetime", "get_news">>, raised |-> env.fault,
          caught |-> "get_sentiment", escaped |-> FALSE]
    ELSE IF env.fault = "estimate_sentiment"
    THEN [probability |-> DefaultProbability, sentiment |-> "neutral",
          calls |-> <<"get_datetime", "get_news", "estimate_sentiment">>,
          raised |-> "estimate_sentiment", caught |-> "get_sentiment", escaped |-> FALSE]
    ELSE [probability |-> env.probability, sentiment |-> env.label,
          calls |-> <<"get_datetime", "get_news", "estimate_sentiment">>,
          raised |-> "none", caught |-> "none", escaped |-> FALSE]

\* ------------------------------------------------- on_trading_iteration
\* variant: the two legs are passed in each other's place
create_order_swapped(sym, qty, side, price, take_profit, stop_loss) ==
    [symbol |-> sym, quantity |-> qty, side |-> side, type |-> "bracket",
     take_profit_price |-> price * stop_loss,
     stop_loss_price |-> price * take_profit]

\* self.create_order(symbol, quantity, side, type="bracket", ...); the legs
\* are last_price times the factor, in hundredths
create_order(sym, qty, side, price, take_profit, stop_loss) ==
    [symbol |-> sym, quantity |-> qty, side |-> side, type |-> "bracket",
     take_profit_price |-> price * take_profit,
     stop_loss_price |-> price * stop_loss]

\* variant: the position is never liquidated before reversing
place_order_no_liquidate(sym, lt, s, side, opposite, take_profit, stop_loss, env) ==
    LET pre == <<>>
        order == create_order(sym, s.quantity, side, s.last_price,
                              take_profit, stop_loss)
    IN  IF FALSE
        THEN [last_trade |-> lt, calls |-> pre, orders |-> <<>>,
              raised |-> "sell_all", caught |-> "on_trading_iteration",
              escaped |-> FALSE]
        ELSE IF env.fault = "create_order"
        THEN [last_trade |-> lt, calls |-> pre \o <<"create_order">>,
              orders |-> <<>>, raised |-> "create_order",
              caught |-> "on_trading_iteration", escaped |-> FALSE]
        ELSE IF env.fault = "submit_order"
        THEN [last_trade |-> lt,
              calls |-> pre \o <<"create_order", "submit_order">>,
              orders |-> <<order>>, raised |-> "submit_order",
              caught |-> "on_trading_iteration", escaped |-> FALSE]
        ELSE [last_trade |-> side,
              calls |-> pre \o <<"create_order", "submit_order">>,
              orders |-> <<order>>, raised |-> "none", caught |-> "none",
              escaped |-> FALSE]

\* variant: last_trade is assigned before the order is submitted
place_order_flag_first(sym, lt, s, side, opposite, take_profit, stop_loss, env) ==
    LET pre == IF lt = opposite THEN <<"sell_all">> ELSE <<>>
        order == create_order(sym, s.quantity, side, s.last_price,
                              take_profit, stop_loss)
    IN  IF lt = opposite /\ env.fault = "sell_all"
        THEN [last_trade |-> lt, calls |-> pre, orders |-> <<>>,
              raised |-> "sell_all", caught |-> "on_trading_iteration",
              escaped |-> FALSE]
        ELSE IF env.fault = "create_order"
        THEN [last_trade |-> lt, calls |-> pre \o <<"create_order">>,
              orders |-> <<>>, raised |-> "create_order",
              caught |-> "on_trading_iteration", escaped |-> FALSE]
        ELSE IF env.fault = "submit_order"
        THEN [last_trade |-> side,
              calls |-> pre \o <<"create_order", "submit_order">>,
              orders |-> <<order>>, raised |-> "submit_order",
              caught |-> "on_trading_iteration", escaped |-> FALSE]
        ELSE [last_trade |-> side,
              calls |-> pre \o <<"create_order", "submit_order">>,
              orders |-> <<order>>, raised |-> "none", caught |-> "none",
              escaped |-> FALSE]

\* variant: the except clause clears last_trade
place_order_reset_on_error(sym, lt, s, side, opposite, take_profit, stop_loss, env) ==
    LET pre == IF lt = opposite THEN <<"sell_all">> ELSE <<>>
        order == create_order(sym, s.quantity, side, s.last_price,
                              take_profit, stop_loss)
    IN  IF lt = opposite /\ env.fault = "sell_all"
        THEN [last_trade |-> lt, calls |-> pre, orders |-> <<>>,
              raised |-> "sell_all", caught |-> "on_trading_iteration",
              escaped |-> FALSE]
        ELSE IF env.fault = "create_order"
        THEN [last_trade |-> "none", calls |-> pre \o <<"create_order">>,
              orders |-> <<>>, raised |-> "create_order",
              caught |-> "on_trading_iteration", escaped |-> FALSE]
        ELSE IF env.fault = "submit_order"
        THEN [last_trade |-> "none",
              calls |-> pre \o <<"create_order", "submit_order">>,
              orders |-> <<order>>, raised |-> "submit_order",
              caught |-> "on_trading_iteration", escaped |-> FALSE]
        ELSE [last_trade |-> side,
              calls |-> pre \o <<"create_order", "submit_order">>,
              orders |-> <<order>>, raised |-> "none", caught |-> "none",
              escaped |-> FALSE]

\* variant: any open position is liquidated, not only the opposite one
place_order_always_liquidate(sym, lt, s, side, opposite, take_profit, stop_loss, env) ==
    LET pre == IF lt # "none" THEN <<"sell_all">> ELSE <<>>
        order == create_order(sym, s.quantity, side, s.last_price,
                              take_profit, stop_loss)
    IN  IF lt # "none" /\ env.fault = "sell_all"
        THEN [last_trade |-> lt, calls |-> pre, orders |-> <<>>,
              raised |-> "sell_all", caught |-> "on_trading_iteration",
              escaped |-> FALSE]
        ELSE IF env.fault = "create_order"
        THEN [last_trade |-> lt, calls |-> pre \o <<"create_order">>,
              orders |-> <<>>, raised |-> "create_order",
              caught |-> "on_trading_iteration", escaped |-> FALSE]
        ELSE IF env.fault = "submit_order"
        THEN [last_trade |-> lt,
              calls |-> pre \o <<"create_order", "submit_order">>,
              orders |-> <<order>>, raised |-> "submit_order",
              caught |-> "on_trading_iteration", escaped |-> FALSE]
        ELSE [last_trade |-> side,
              calls |-> pre \o <<"create_order", "submit_order">>,
              orders |-> <<order>>, raised |-> "none", caught |-> "none",
              escaped |-> FALSE]

\* variant: an error of sell_all is swallowed and the order still placed
place_order_liquidate_unchecked(sym, lt, s, side, opposite, take_profit, stop_loss, env) ==
    LET pre == IF lt = opposite THEN <<"sell_all">> ELSE <<>>
        order == create_order(sym, s.quantity, side, s.last_price,
                              take_profit, stop_loss)
    IN  IF lt = opposite /\ env.fault = "sell_all"
        THEN [last_trade |-> side,
              calls |-> pre \o <<"create_order", "submit_order">>,
              orders |-> <<order>>, raised |-> "sell_all",
              caught |-> "on_trading_iteration", escaped |-> FALSE]
        ELSE IF env.fault = "create_order"
        THEN [last_trade |-> lt, calls |-> pre \o <<"create_order">>,
              orders |-> <<>>, raised |-> "create_order",
              caught |-> "on_trading_iteration", escaped |-> FALSE]
        ELSE IF env.fault = "submit_order"
        THEN [last_trade |-> lt,
              calls |-> pre \o <<"create_order", "submit_order">>,
              orders |-> <<order>>, raised |-> "submit_order",
              caught |-> "on_trading_iteration", escaped |-> FALSE]
        ELSE [last_trade |-> side,
              calls |-> pre \o <<"create_order", "submit_order">>,
              orders |-> <<order>>, raised |-> "none", caught |-> "none",
              escaped |-> FALSE]

\* variant: no order is placed when last_trade is already the signal's side
place_order_skip_repeat(sym, lt, s, side, opposite, take_profit, stop_loss, env) ==
    LET pre == IF lt = opposite THEN <<"sell_all">> ELSE <<>>
        order == create_order(sym, s.quantity, side, s.last_price,
                              take_profit, stop_loss)
    IN  IF lt = side
        THEN [last_trade |-> lt, calls |-> <<>>, orders |-> <<>>,
              raised |-> "none", caught |-> "none", escaped |-> FALSE]
        ELSE IF lt = opposite /\ env.fault = "sell_all"
        THEN [last_trade |-> lt, calls |-> pre, orders |-> <<>>,
              raised |-> "sell_all", caught |-> "on_trading_iteration",
              escaped |-> FALSE]
        ELSE IF env.fault = "create_order"
        THEN [last_trade |-> lt, calls |-> pre \o <<"create_order">>,
              orders |-> <<>>, raised |-> "create_order",
              caught |-> "on_trading_iteration", escaped |-> FALSE]
        ELSE IF env.fault = "submit_order"
        THEN [last_trade |-> lt,
              calls |-> pre \o <<"create_order", "submit_order">>,
              orders |-> <<order>>, raised |-> "submit_order",
              caught |-> "on_trading_iteration", escaped |-> FALSE]
        ELSE [last_trade |-> side,
              calls |-> pre \o <<"create_order", "submit_order">>,
              orders |-> <<order>>, raised |-> "none", caught |-> "none",
              escaped |-> FALSE]

\* one branch of the policy: liquidate when reversing, build, submit, record
place_order(sym, lt, s, side, opposite, take_profit, stop_loss, env) ==
    LET pre == IF lt = opposite THEN <<"sell_all">> ELSE <<>>
        order == create_order(sym, s.quantity, side, s.last_price,
                              take_profit, stop_loss)
    IN  IF lt = opposite /\ env.fault = "sell_all"
        THEN [last_trade |-> lt, calls |-> pre, orders |-> <<>>,
              raised |-> "sell_all", caught |-> "on_trading_iteration",
              escaped |-> FALSE]
        ELSE IF env.fault = "create_order"
        THEN [last_trade |-> lt, calls |-> pre \o <<"create_order">>,
              orders |-> <<>>, raised |-> "create_order",
              caught |-> "on_trading_iteration", escaped |-> FALSE]
        ELSE IF env.fault = "submit_order"
        THEN [last_trade |-> lt,
              calls |-> pre \o <<"create_order", "submit_order">>,
              orders |-> <<order>>, raised |-> "submit_order",
              caught |-> "on_trading_iteration", escaped |-> FALSE]
        ELSE [last_trade |-> side,
              calls |-> pre \o <<"create_order", "submit_order">>,
              orders |-> <<order>>, raised |-> "none", caught |-> "none",
              escaped |-> FALSE]

no_trade(lt) ==
    [last_trade |-> lt, calls |-> <<>>, orders |-> <<>>, raised |-> "none",
     caught |-> "none", escaped |-> FALSE]

\* variant: the threshold is inclusive
trade_inclusive(sym, lt, s, g, env) ==
    IF s.cash > s.last_price
    THEN IF g.sentiment = "positive" /\ g.probability >= Threshold
         THEN place_order(sym, lt, s, "buy", "sell", BuyTakeProfit,
                          BuyStopLoss, env)
         ELSE IF g.sentiment = "negative" /\ g.probability >= Threshold
         THEN place_order(sym, lt, s, "sell", "buy", SellTakeProfit,
                          SellStopLoss, env)
         ELSE no_trade(lt)
    ELSE no_trade(lt)

\* variant: the affordability gate is missing
trade_no_gate(sym, lt, s, g, env) ==
    IF TRUE
    THEN IF g.sentiment = "positive" /\ g.probability > Threshold
         THEN place_order(sym, lt, s, "buy", "sell", BuyTakeProfit,
                          BuyStopLoss, env)
         ELSE IF g.sentiment = "negative" /\ g.probability > Threshold
         THEN place_order(sym, lt, s, "sell", "buy", SellTakeProfit,
                          SellStopLoss, env)
         ELSE no_trade(lt)
    ELSE no_trade(lt)

\* variant: the sell branch passes the legs of the buy branch
trade_buy_legs_for_sell(sym, lt, s, g, env) ==
    IF s.cash > s.last_price
    THEN IF g.sentiment = "positive" /\ g.probability > Threshold
         THEN place_order(sym, lt, s, "buy", "sell", BuyTakeProfit,
                          BuyStopLoss, env)
         ELSE IF g.sentiment = "negative" /\ g.probability > Threshold
         THEN place_order(sym, lt, s, "sell", "buy", BuyTakeProfit,
                          BuyStopLoss, env)
         ELSE no_trade(lt)
    ELSE no_trade(lt)

\* the try block: affordability gate, then the signal policy
trade(sym, lt, s, g, env) ==
    IF s.cash > s.last_price
    THEN IF g.sentiment = "positive" /\ g.probability > Threshold
         THEN place_order(sym, lt, s, "buy", "sell", BuyTakeProfit,
                          BuyStopLoss, env)
         ELSE IF g.sentiment = "negative" /\ g.probability > Threshold
         THEN place_order(sym, lt, s, "sell", "buy", SellTakeProfit,
                          SellStopLoss, env)
         ELSE no_trade(lt)
    ELSE no_trade(lt)

first_of(a, b) == IF a # "none" THEN a ELSE b

\* variant: a zero quantity is not skipped
on_trading_iteration_no_skip(sym, car, lt, env) ==
    LET s == position_sizing(car, env)
        g == get_sentiment(env)
        t == trade(sym, lt, s, g, env)
    IN  IF s.escaped \/ s.quantity < 0
        THEN [last_trade |-> lt, cash |-> s.cash, last_price |-> s.last_price,
              quantity |-> s.quantity, probability |-> 0,
              sentiment |-> "uncalled", calls |-> s.calls, orders |-> <<>>,
              raised |-> s.raised, caught |-> s.caught,
              escaped |-> s.escaped]
        ELSE IF g.escaped
        THEN [last_trade |-> lt, cash |-> s.cash, last_price |-> s.last_price,
              quantity |-> s.quantity, probability |-> 0,
              sentiment |-> "uncalled", calls |-> s.calls \o g.calls,
              orders |-> <<>>, raised |-> g.raised, caught |-> g.caught,
              escaped |-> TRUE]
        ELSE [last_trade |-> t.last_trade, cash |-> s.cash,
              last_price |-> s.last_price, quantity |-> s.quantity,
              probability |-> g.probability, sentiment |-> g.sentiment,
              calls |-> s.calls \o g.calls \o t.calls, orders |-> t.orders,
              raised |-> first_of(g.raised, t.raised),
              caught |-> first_of(g.caught, t.caught),
              escaped |-> t.escaped]

\* variant: a skipped iteration clears last_trade
on_trading_iteration_reset(sym, car, lt, env) ==
    LET s == position_sizing(car, env)
        g == get_sentiment(env)
        t == trade(sym, lt, s, g, env)
    IN  IF s.escaped \/ s.quantity <= 0
        THEN [last_trade |-> "none", cash |-> s.cash,
              last_price |-> s.last_price,
              quantity |-> s.quantity, probability |-> 0,
              sentiment |-> "uncalled", calls |-> s.calls, orders |-> <<>>,
              raised |-> s.raised, caught |-> s.caught,
              escaped |-> s.escaped]
        ELSE IF g.escaped
        THEN [last_trade |-> lt, cash |-> s.cash, last_price |-> s.last_price,
              quantity |-> s.quantity, probability |-> 0,
              sentiment |-> "uncalled", calls |-> s.calls \o g.calls,
              orders |-> <<>>, raised |-> g.raised, caught |-> g.caught,
              escaped |-> TRUE]
        ELSE [last_trade |-> t.last_trade, cash |-> s.cash,
              last_price |-> s.last_price, quantity |-> s.quantity,
              probability |-> g.probability, sentiment |-> g.sentiment,
              calls |-> s.calls \o g.calls \o t.calls, orders |-> t.orders,
              raised |-> first_of(g.raised, t.raised),
              caught |-> first_of(g.caught, t.caught),
              escaped |-> t.escaped]

\* variant: get_sentiment is called before the quantity is tested
on_trading_iteration_sentiment_first(sym, car, lt, env) ==
    LET s == position_sizing(car, env)
        g == get_sentiment(env)
        t == trade(sym, lt, s, g, env)
    IN  IF s.escaped \/ s.quantity <= 0
        THEN [last_trade |-> lt, cash |-> s.cash, last_price |-> s.last_price,
              quantity |-> s.quantity, probability |-> 0,
              sentiment |-> "uncalled", calls |-> s.calls \o g.calls,
              orders |-> <<>>,
              raised |-> s.raised, caught |-> s.caught,
              escaped |-> s.escaped]
        ELSE IF g.escaped
        THEN [last_trade |-> lt, cash |-> s.cash, last_price |-> s.last_price,
              quantity |-> s.quantity, probability |-> 0,
              sentiment |-> "uncalled", calls |-> s.calls \o g.calls,
              orders |-> <<>>, raised |-> g.raised, caught |-> g.caught,
              escaped |-> TRUE]
        ELSE [last_trade |-> t.last_trade, cash |-> s.cash,
              last_price |-> s.last_price, quantity |-> s.quantity,
              probability |-> g.probability, sentiment |-> g.sentiment,
              calls |-> s.calls \o g.calls \o t.calls, orders |-> t.orders,
              raised |-> first_of(g.raised, t.raised),
              caught |-> first_of(g.caught, t.caught),
              escaped |-> t.escaped]

\* an error that leaves position_sizing or get_sentiment leaves the
\* iteration too: both are called outside the try block
on_trading_iteration(sym, car, lt, env) ==
    LET s == position_sizing(car, env)
        g == get_sentiment(env)
        t == trade(sym, lt, s, g, env)
    IN  IF s.escaped \/ s.quantity <= 0
        THEN [last_trade |-> lt, cash |-> s.cash, last_price |-> s.last_price,
              quantity |-> s.quantity, probability |-> 0,
              sentiment |-> "uncalled", calls |-> s.calls, orders |-> <<>>,
              raised |-> s.raised, caught |-> s.caught,
              escaped |-> s.escaped]
        ELSE IF g.escaped
        THEN [last_trade |-> lt, cash |-> s.cash, last_price |-> s.last_price,
              quantity |-> s.quantity, probability |-> 0,
              sentiment |-> "uncalled", calls |-> s.calls \o g.calls,
              orders |-> <<>>, raised |-> g.raised, caught |-> g.caught,
              escaped |-> TRUE]
        ELSE [last_trade |-> t.last_trade, cash |-> s.cash,
              last_price |-> s.last_price, quantity |-> s.quantity,
              probability |-> g.probability, sentiment |-> g.sentiment,
              calls |-> s.calls \o g.calls \o t.calls, orders |-> t.orders,
              raised |-> first_of(g.raised, t.raised),
              caught |-> first_of(g.caught, t.caught),
              escaped |-> t.escaped]

\* side of the order submit_order accepted in an iteration, if any
accepted(r, before) ==
    IF r.raised = "none" /\ Len(r.orders) > 0 THEN r.orders[1].side ELSE before

\* ------------------------------------------------------------------ actions
Init ==
    /\ process = "importing"
    /\ logged = "none"
    /\ args = NoArgs
    /\ phase = "new"
    /\ error = "none"
    /\ attrs = {}
    /\ symbol = ""
    /\ cash_at_risk = [num |-> 0, den |-> 1]
    /\ last_trade = "none"
    /\ cash = 0
    /\ last_price = 0
    /\ quantity = 0
    /\ probability = 0
    /\ sentiment = "uncalled"
    /\ calls = <<>>
    /\ orders = <<>>
    /\ raised = "none"
    /\ caught = "none"
    /\ escaped = FALSE
    /\ prev_last_trade = "none"
    /\ responses = NoResponses
    /\ prev_order_failed = FALSE
    /\ last_submitted = "none"

\* The module body: the credentials check raises before logging is set up.
\* present: the environment variables that are set and not empty.
load_module(present) ==
    IF present # Credentials
    THEN [process |-> "crashed", error |-> "credentials", logged |-> "none"]
    ELSE [process |-> "main", error |-> "none", logged |-> "none"]

LoadModule ==
    /\ process = "importing"
    /\ \E present \in SUBSET Credentials :
        \E r \in {load_module(present)} :
            /\ process' = r.process
            /\ error' = r.error
            /\ logged' = r.logged
    /\ UNCHANGED <<args, phase, attrs, symbol, cash_at_risk, last_trade>>
    /\ UNCHANGED iter_vars

\* variant: the except clause of the main block logs and raises again
main_reraise(broker_ok, driver_ok) ==
    IF ~ broker_ok
    THEN [process |-> "crashed", error |-> "Alpaca", logged |-> "critical"]
    ELSE IF ~ driver_ok
    THEN [process |-> "crashed", error |-> "backtest", logged |-> "critical"]
    ELSE [process |-> "backtest", error |-> "none", logged |-> "none"]

\* The main block: Alpaca(...), MLTrader(...), strategy.backtest(...) inside
\* one try; its except clause logs at critical severity and falls through to
\* the end of the script.  broker_ok: Alpaca(...) returns; driver_ok: the
\* backtest driver is set up and starts the strategy.
main(broker_ok, driver_ok) ==
    IF ~ broker_ok
    THEN [process |-> "exited", error |-> "Alpaca", logged |-> "critical"]
    ELSE IF ~ driver_ok
    THEN [process |-> "exited", error |-> "backtest", logged |-> "critical"]
    ELSE [process |-> "backtest", error |-> "none", logged |-> "none"]

Main ==
    /\ process = "main"
    /\ \E broker_ok \in BOOLEAN, driver_ok \in BOOLEAN :
        \E r \in {main(broker_ok, driver_ok)} :
            /\ process' = r.process
            /\ error' = r.error
            /\ logged' = r.logged
    /\ UNCHANGED <<args, phase, attrs, symbol, cash_at_risk, last_trade>>
    /\ UNCHANGED iter_vars

\* MLTrader.initialize(symbol, cash_at_risk), called once by the backtest
\* driver; rest_ok: REST(...) returns.  An error it raises goes to the
\* driver, whose code is not part of this program.
initialize(sym, car, rest_ok) ==
    /\ process = "backtest"
    /\ phase = "new"
    /\ args' = [symbol |-> sym, cash_at_risk |-> car]
    /\ IF ~ valid_cash_at_risk(car)
       THEN /\ phase' = "failed"
            /\ error' = "ValueError"
            /\ logged' = "none"
            /\ UNCHANGED <<attrs, symbol, cash_at_risk, last_trade>>
       ELSE /\ symbol' = upper(sym)
            /\ cash_at_risk' = car
            /\ last_trade' = "none"
            /\ IF rest_ok
               THEN /\ attrs' = {"symbol", "cash_at_risk", "sleeptime",
                                 "last_trade", "api"}
                    /\ phase' = "running"
                    /\ error' = "none"
                    /\ logged' = "none"
               ELSE /\ attrs' = {"symbol", "cash_at_risk", "sleeptime",
                                 "last_trade"}
                    /\ phase' = "failed"
                    /\ error' = "REST"
                    /\ logged' = "error"
    /\ UNCHANGED process
    /\ UNCHANGED iter_vars

Initialize ==
    \E sym \in SymbolArgs, car \in CashAtRiskArgs, rest_ok \in BOOLEAN :
        initialize(sym, car, rest_ok)

\* variant: the iteration stores the symbol argument again, as passed
OnTradingIteration_resets_symbol ==
    /\ phase = "running"
    /\ \E env \in Envs :
        \E r \in {on_trading_iteration(symbol, cash_at_risk, last_trade, env)} :
            /\ last_trade' = r.last_trade
            /\ cash' = r.cash
            /\ last_price' = r.last_price
            /\ quantity' = r.quantity
            /\ probability' = r.probability
            /\ sentiment' = r.sentiment
            /\ calls' = r.calls
            /\ orders' = r.orders
            /\ raised' = r.raised
            /\ caught' = r.caught
            /\ escaped' = r.escaped
            /\ prev_last_trade' = last_trade
            /\ prev_order_failed' = (raised \in {"create_order", "submit_order"})
            /\ responses' = [cash |-> env.cash, last_price |-> env.last_price,
                              probability |-> env.probability,
                              label |-> env.label]
            /\ last_submitted' = accepted(r, last_submitted)
    /\ symbol' = args.symbol
    /\ UNCHANGED <<process, logged, args, phase, error, attrs, cash_at_risk>>

OnTradingIteration ==
    /\ phase = "running"
    /\ \E env \in Envs :
        \E r \in {on_trading_iteration(symbol, cash_at_risk, last_trade, env)} :
            /\ last_trade' = r.last_trade
            /\ cash' = r.cash
            /\ last_price' = r.last_price
            /\ quantity' = r.quantity
            /\ probability' = r.probability
            /\ sentiment' = r.sentiment
            /\ calls' = r.calls
            /\ orders' = r.orders
            /\ raised' = r.raised
            /\ caught' = r.caught
            /\ escaped' = r.escaped
            /\ prev_last_trade' = last_trade
            /\ prev_order_failed' = (raised \in {"create_order", "submit_order"})
            /\ responses' = [cash |-> env.cash, last_price |-> env.last_price,
                              probability |-> env.probability,
                              label |-> env.label]
            /\ last_submitted' = accepted(r, last_submitted)
    /\ UNCHANGED <<process, logged, args, phase, error, attrs, symbol,
                   cash_at_risk>>

Next == LoadModule \/ Main \/ Initialize \/ OnTradingIteration

Spec == Init /\ [][Next]_vars

\* ================================================================ properties
Ran == Len(calls) > 0
Called(op) == \E i \in DOMAIN calls : calls[i] = op
Count(op) == Cardinality({i \in DOMAIN calls : calls[i] = op})
Before(a, b) ==
    \A i, j \in DOMAIN calls : calls[i] = a /\ calls[j] = b => i < j
Unchanged == last_trade = prev_last_trade
NoTradeCalls ==
    /\ ~ Called("sell_all")
    /\ ~ Called("create_order")
    /\ ~ Called("submit_order")
    /\ orders = <<>>
LabelOf(side) == IF side = "buy" THEN "positive" ELSE "negative"
OppositeOf(side) == IF side = "buy" THEN "sell" ELSE "buy"
\* the latest iteration scored a signal for this side above the threshold
Qualifies(side) == sentiment = LabelOf(side) /\ probability > 9990

\* C1: an iteration with quantity > 0, cash > last_price, no collaborator
\* raising and a qualifying signal opposite to last_trade makes exactly one
\* sell_all call, then exactly one submission of a bracket order of the
\* signal's side, and leaves last_trade equal to that side.
C1_ReversalLiquidatesThenSubmits ==
    \A side \in {"buy", "sell"} :
        (/\ Ran
         /\ quantity > 0
         /\ cash > last_price
         /\ raised = "none"
         /\ Qualifies(side)
         /\ prev_last_trade = OppositeOf(side))
        => /\ Count("sell_all") = 1
           /\ Count("submit_order") = 1
           /\ Before("sell_all", "create_order")
           /\ Before("sell_all", "submit_order")
           /\ Len(orders) = 1
           /\ orders[1].side = side
           /\ orders[1].type = "bracket"
           /\ last_trade = side

C1_Witness ==
    /\ prev_last_trade = "sell"
    /\ Qualifies("buy")
    /\ raised = "none"
    /\ Called("sell_all")
    /\ Called("submit_order")
    /\ last_trade = "buy"

\* C2: when create_order or submit_order raises, the error stays inside the
\* iteration and last_trade keeps the value it had when the iteration began.
C2_OrderErrorLeavesLastTrade ==
    raised \in {"create_order", "submit_order"} => ~ escaped /\ Unchanged

C2_Witness ==
    /\ raised = "submit_order"
    /\ prev_last_trade = "sell"
    /\ Qualifies("buy")
    /\ Called("sell_all")
    /\ last_trade = "sell"

\* C3: once initialised, last_trade changes only in an iteration whose last
\* call is a submit_order that did not raise, and it always equals the side of
\* the latest order submit_order accepted, none when there is no such order.
C3_LastTradeFollowsSubmissions ==
    /\ [](last_trade = last_submitted)
    /\ [][last_trade' # last_trade =>
            /\ phase = "running"
            /\ raised' = "none"
            /\ Len(calls') > 0
            /\ calls'[Len(calls')] = "submit_order"
            /\ Len(orders') = 1
            /\ last_trade' = orders'[1].side]_vars

C3_Witness ==
    /\ last_trade = "buy"
    /\ last_submitted = "buy"
    /\ prev_last_trade = "buy"
    /\ raised = "submit_order"
    /\ Len(orders) = 1
    /\ orders[1].side = "sell"

\* C4: an iteration whose sized quantity is <= 0, a failed sizing included,
\* calls neither sell_all nor create_order nor submit_order and leaves
\* last_trade as it was, whatever the scoring model had to answer.
C4_NoQuantityNoTrade ==
    Ran /\ quantity <= 0 => NoTradeCalls /\ Unchanged

C4_Witness ==
    /\ Ran
    /\ quantity = 0
    /\ raised = "none"
    /\ cash > last_price
    /\ last_price > 0
    /\ responses.label = "positive"
    /\ responses.probability > 9990
    /\ prev_last_trade = "sell"
    /\ last_trade = "sell"

\* C5: an iteration that scored positive or negative with probability
\* <= 0.999, or neutral with any probability, calls no sell_all, submits no
\* order and leaves last_trade as it was.
C5_ThresholdIsStrict ==
    (/\ Ran
     /\ \/ sentiment \in {"positive", "negative"} /\ probability <= 9990
        \/ sentiment = "neutral")
    => NoTradeCalls /\ Unchanged

C5_Witness ==
    /\ sentiment = "positive"
    /\ probability = 9990
    /\ quantity > 0
    /\ cash > last_price
    /\ prev_last_trade = "sell"
    /\ last_trade = "sell"

\* C6: when the news fetch, the headline extraction or the scoring raises,
\* get_sentiment answers (0.5, neutral), nothing escapes, and the iteration
\* calls no sell_all, submits no order and leaves last_trade as it was.
C6_SentimentFailureIsNeutral ==
    raised \in {"get_news", "headline", "estimate_sentiment"}
    => /\ probability = 5000
       /\ sentiment = "neutral"
       /\ caught = "get_sentiment"
       /\ ~ escaped
       /\ NoTradeCalls
       /\ Unchanged

C6_Witness ==
    /\ raised = "estimate_sentiment"
    /\ Called("estimate_sentiment")
    /\ sentiment = "neutral"
    /\ quantity > 0
    /\ cash > last_price
    /\ prev_last_trade = "buy"

\* q is an integer nearest to n / d, for d > 0
Nearest(q, n, d) ==
    LET diff == q * d - n
    IN  2 * (IF diff < 0 THEN -diff ELSE diff) <= d

\* C7: with both lookups answering and last_price > 0, position_sizing
\* returns the cash, the price and cash * cash_at_risk / last_price rounded
\* to a nearest whole number; when a lookup raises it returns (0, 0, 0) and
\* nothing escapes.
C7_PositionSizing ==
    /\ (/\ Ran
        /\ raised \notin {"get_cash", "get_last_price"}
        /\ responses.last_price > 0)
       => /\ cash = responses.cash
          /\ last_price = responses.last_price
          /\ Nearest(quantity, responses.cash * cash_at_risk.num,
                     cash_at_risk.den * responses.last_price)
    /\ raised \in {"get_cash", "get_last_price"}
       => /\ cash = 0
          /\ last_price = 0
          /\ quantity = 0
          /\ ~ escaped

C7_Witness ==
    /\ Ran
    /\ raised = "none"
    /\ cash = 3
    /\ last_price = 2
    /\ cash_at_risk = [num |-> 1, den |-> 2]
    /\ quantity = 1

\* C8: every order handed to submit_order is a bracket order for the
\* strategy's symbol with the quantity sized in that iteration, with legs
\* 1.20 and 0.95 times last_price for a buy and 0.80 and 1.05 times
\* last_price for a sell; cash 10000, price 100, cash_at_risk 0.5,
\* (positive, 0.9995) and last_trade none give {symbol, 50, buy, bracket,
\* 120, 95} and last_trade = buy.
C8_OrderContents ==
    /\ \A i \in DOMAIN orders :
        /\ orders[i].type = "bracket"
        /\ orders[i].symbol = symbol
        /\ orders[i].quantity = quantity
        /\ orders[i].side \in {"buy", "sell"}
        /\ orders[i].side = "buy"
           => /\ orders[i].take_profit_price = last_price * 120
              /\ orders[i].stop_loss_price = last_price * 95
        /\ orders[i].side = "sell"
           => /\ orders[i].take_profit_price = last_price * 80
              /\ orders[i].stop_loss_price = last_price * 105
    /\ (/\ Ran
        /\ raised = "none"
        /\ responses = [cash |-> 10000, last_price |-> 100,
                        probability |-> 9995, label |-> "positive"]
        /\ cash_at_risk = [num |-> 1, den |-> 2]
        /\ prev_last_trade = "none")
       => /\ orders = <<[symbol |-> symbol, quantity |-> 50, side |-> "buy",
                         type |-> "bracket", take_profit_price |-> 12000,
                         stop_loss_price |-> 9500]>>
          /\ last_trade = "buy"

C8_Witness ==
    /\ raised = "none"
    /\ cash = 10000
    /\ last_price = 100
    /\ cash_at_risk = [num |-> 1, den |-> 2]
    /\ prev_last_trade = "none"
    /\ Len(orders) = 1
    /\ orders[1].quantity = 50
    /\ orders[1].take_profit_price = 12000
    /\ last_trade = "buy"

\* C9: an iteration with cash <= last_price calls neither sell_all nor
\* create_order nor submit_order and leaves last_trade as it was; every
\* order handed to submit_order comes from an iteration with
\* cash > last_price.
C9_AffordabilityGate ==
    /\ Ran /\ cash <= last_price => NoTradeCalls /\ Unchanged
    /\ orders # <<>> => cash > last_price

C9_Witness ==
    /\ Ran
    /\ last_price > 0
    /\ cash <= last_price
    /\ quantity > 0
    /\ Qualifies("buy")
    /\ prev_last_trade = "sell"
    /\ last_trade = "sell"

\* the calls an iteration that failed in create_order or submit_order was
\* about to make
Attempted ==
    IF raised = "create_order" THEN calls \o <<"submit_order">> ELSE calls

\* C10: when the iteration after one that failed in create_order or
\* submit_order sees the same sizing and the same qualifying signal and no
\* collaborator raises, it makes the calls the failed one attempted (the
\* sell_all included), submits the order and sets last_trade to the
\* signal's side.
C10_RetryAfterOrderFailure ==
    [][\A side \in {"buy", "sell"} :
          (/\ raised \in {"create_order", "submit_order"}
           /\ Qualifies(side)
           /\ raised' = "none"
           /\ sentiment' = sentiment
           /\ probability' = probability
           /\ quantity' > 0
           /\ cash' > last_price')
          => /\ calls' = Attempted
             /\ Called("sell_all") <=> prev_last_trade = OppositeOf(side)
             /\ Len(orders') = 1
             /\ orders'[1].side = side
             /\ last_trade' = side]_vars

C10_Witness ==
    /\ prev_order_failed
    /\ raised = "none"
    /\ prev_last_trade = "sell"
    /\ Qualifies("buy")
    /\ Called("sell_all")
    /\ Called("submit_order")
    /\ last_trade = "buy"

\* an error of the startup left the code that met it: the module body (the
\* process ends with a traceback) or initialize (raised to the driver)
Reraised == process = "crashed" \/ phase = "failed"

\* C12 as stated: every fatal startup failure (missing credentials, REST
\* client construction, broker or backtest driver construction) is logged at
\* critical severity and then raised again, so that the process does not go
\* on or end normally.
C12_AsStated ==
    error \in {"credentials", "REST", "Alpaca", "backtest"}
    => logged = "critical" /\ Reraised /\ process # "exited"

\* C12, amended: missing credentials raise out of the module body with no
\* log record; a REST construction failure in initialize is logged at error
\* severity and raised again; a broker or backtest driver failure in the main
\* block is logged at critical severity and not raised again, the script
\* runs to its end.
C12_StartupFailures ==
    /\ error = "credentials" => logged = "none" /\ process = "crashed"
    /\ error = "REST" => logged = "error" /\ phase = "failed"
    /\ error \in {"Alpaca", "backtest"}
       => logged = "critical" /\ process = "exited" /\ ~ Reraised

C12_Witness ==
    /\ error = "backtest"
    /\ logged = "critical"
    /\ process = "exited"
    /\ phase = "new"

Called_initialize == args # NoArgs

\* C13: initialize called with cash_at_risk <= 0 or > 1 raises before it
\* sets any attribute; called with a value in (0, 1] it sets cash_at_risk to
\* that value, symbol to the upper-cased argument and last_trade to none.
C13_InitializeValidates ==
    Called_initialize =>
        IF args.cash_at_risk.num <= 0
           \/ args.cash_at_risk.num > args.cash_at_risk.den
        THEN /\ error = "ValueError"
             /\ phase = "failed"
             /\ attrs = {}
        ELSE /\ error # "ValueError"
             /\ {"symbol", "cash_at_risk", "last_trade"} \subseteq attrs
             /\ cash_at_risk = args.cash_at_risk
             /\ symbol = upper(args.symbol)
             /\ ~ Ran => last_trade = "none"

C13_Witness ==
    /\ args = [symbol |-> "spy", cash_at_risk |-> [num |-> 1, den |-> 1]]
    /\ phase = "running"
    /\ symbol = "SPY"
    /\ cash_at_risk = [num |-> 1, den |-> 1]
    /\ last_trade = "none"
    /\ ~ Ran

SizingAnswered == Ran /\ raised \notin {"get_cash", "get_last_price"}

\* C14: for a sizing result with last_price > 0 and cash >= 0,
\* quantity * last_price exceeds cash * cash_at_risk by at most half of
\* last_price, the effect of rounding quantity to a whole number.
C14_SpendWithinRounding ==
    SizingAnswered /\ last_price > 0 /\ cash >= 0
    => /\ quantity >= 0
       /\ 2 * (quantity * last_price * cash_at_risk.den
               - cash * cash_at_risk.num)
          <= last_price * cash_at_risk.den

C14_Witness ==
    /\ SizingAnswered
    /\ cash = 3
    /\ last_price = 2
    /\ cash_at_risk = [num |-> 1, den |-> 1]
    /\ quantity = 2
    /\ quantity * last_price > cash

\* C15: sell_all is called at most once in an iteration, and only when
\* quantity > 0, cash > last_price, the signal qualifies and last_trade is the
\* side opposite to the signal; an order handed to submit_order while
\* last_trade is the opposite side is preceded by a sell_all in the iteration.
C15_LiquidateOnlyOnReversal ==
    /\ Count("sell_all") <= 1
    /\ Called("sell_all")
       => /\ quantity > 0
          /\ cash > last_price
          /\ prev_last_trade # "none"
          /\ Qualifies(OppositeOf(prev_last_trade))
    /\ \A i \in DOMAIN orders :
          prev_last_trade = OppositeOf(orders[i].side)
          => Called("sell_all") /\ Before("sell_all", "submit_order")

C15_Witness ==
    /\ prev_last_trade = "buy"
    /\ Qualifies("sell")
    /\ Count("sell_all") = 1
    /\ Len(orders) = 1
    /\ orders[1].side = "sell"
    /\ last_trade = "sell"

\* position of a collaborator call in the order of one iteration
Rank(op) ==
    CASE op = "get_cash" -> 1
      [] op = "get_last_price" -> 2
      [] op = "get_datetime" -> 3
      [] op = "get_news" -> 4
      [] op = "estimate_sentiment" -> 5
      [] op = "sell_all" -> 6
      [] op = "create_order" -> 7
      [] op = "submit_order" -> 8

\* C16: the calls of an iteration come in the order cash lookup, price
\* lookup, news fetch and scoring, sell_all if any, create_order,
\* submit_order, none of them twice and none of the later ones without the
\* sizing and the scoring before it; an iteration whose quantity is <= 0
\* makes no news fetch and no scoring call.
C16_CallOrder ==
    /\ \A i, j \in DOMAIN calls : i < j => Rank(calls[i]) < Rank(calls[j])
    /\ Ran => calls[1] = "get_cash"
    /\ Called("get_datetime") => Called("get_last_price")
    /\ Called("sell_all") \/ Called("create_order")
       => Called("estimate_sentiment")
    /\ Called("submit_order") => Called("create_order")
    /\ Ran /\ quantity <= 0
       => /\ ~ Called("get_datetime")
          /\ ~ Called("get_news")
          /\ ~ Called("estimate_sentiment")

C16_Witness ==
    calls = <<"get_cash", "get_last_price", "get_datetime", "get_news",
              "estimate_sentiment", "sell_all", "create_order",
              "submit_order">>

\* C17: an iteration changes neither symbol nor cash_at_risk nor the set of
\* attributes; whatever iterations ran, symbol and cash_at_risk are what
\* initialize set from its arguments.
C17_IterationFrame ==
    /\ [][phase = "running" =>
            /\ symbol' = symbol
            /\ cash_at_risk' = cash_at_risk
            /\ attrs' = attrs]_vars
    /\ [](phase = "running" =>
            /\ symbol = upper(args.symbol)
            /\ cash_at_risk = args.cash_at_risk)

C17_Witness ==
    /\ args = [symbol |-> "spy", cash_at_risk |-> [num |-> 1, den |-> 3]]
    /\ symbol = "SPY"
    /\ cash_at_risk = [num |-> 1, den |-> 3]
    /\ prev_order_failed
    /\ Ran
    /\ quantity <= 0
    /\ last_trade = "sell"

\* C18: when sell_all raises, the error stays inside the iteration, sell_all
\* is its last call, no order is built or submitted and last_trade keeps its
\* value.
C18_LiquidateErrorAborts ==
    raised = "sell_all"
    => /\ ~ escaped
       /\ caught = "on_trading_iteration"
       /\ calls[Len(calls)] = "sell_all"
       /\ ~ Called("create_order")
       /\ ~ Called("submit_order")
       /\ orders = <<>>
       /\ Unchanged

C18_Witness ==
    /\ raised = "sell_all"
    /\ Called("sell_all")
    /\ prev_last_trade = "buy"
    /\ Qualifies("sell")
    /\ last_trade = "buy"

\* the latest iteration submitted exactly one bracket order of this side
SubmittedOne(side) ==
    /\ Count("create_order") = 1
    /\ Count("submit_order") = 1
    /\ Len(orders) = 1
    /\ orders[1].side = side
    /\ orders[1].type = "bracket"

C20_LegsStraddleEntry ==
    \A i \in DOMAIN orders :
        /\ orders[i].quantity \in Nat
        /\ orders[i].quantity >= 1
        /\ last_price > 0 /\ orders[i].side = "buy"
           => /\ orders[i].stop_loss_price < last_price * 100
              /\ last_price * 100 < orders[i].take_profit_price
        /\ last_price > 0 /\ orders[i].side = "sell"
           => /\ orders[i].take_profit_price < last_price * 100
              /\ last_price * 100 < orders[i].stop_loss_price

C20_Witness ==
    /\ Len(orders) = 1
    /\ orders[1].side = "sell"
    /\ orders[1].quantity = 1
    /\ last_price = 2
    /\ orders[1].take_profit_price = 160
    /\ orders[1].stop_loss_price = 210

====
